---- MODULE Spec2Model ----
(***************************************************************************)
(* A model of the NodejsFunction constructs of aws-lambda-nodejs-webpack:  *)
(* the current webpack constructor (src/src/NodejsFunction.ts 64-308), the *)
(* older webpack constructor (src/src/NodejsFunction.ts 397-544) and the   *)
(* rollup constructor (src/src/function.ts 59-155).                        *)
(*                                                                         *)
(* Strings are sequences of tokens.  A token is either one character that  *)
(* some operation of the program looks at ("/", ".", the backslash, a      *)
(* digit) or a run of ordinary characters written as one token ("events",  *)
(* "node_modules").  Concatenation of strings is \o.                       *)
(***************************************************************************)
EXTENDS Naturals, Sequences, FiniteSets, TLC

(***************************************************************************)
(* Bounds of the model.                                                    *)
(***************************************************************************)
\* number of NodejsFunction constructions in one run of the CDK app
MaxBuilds == 2
\* length of the path strings the escaping step is tried on
MaxLen == 4

(***************************************************************************)
(* JavaScript values.                                                      *)
(***************************************************************************)
BS == "\\"
\* an absent string property / an undefined value
Undefined == <<"<undefined>">>
\* a string literal that does not parse (ends inside an escape sequence)
SyntaxError == <<"<SyntaxError>">>

IsDigit(c) == c \in {"0", "1", "2", "3", "4", "5", "6", "7", "8", "9"}

DigitVal(c) ==
  CASE c = "0" -> 0 [] c = "1" -> 1 [] c = "2" -> 2 [] c = "3" -> 3
    [] c = "4" -> 4 [] c = "5" -> 5 [] c = "6" -> 6 [] c = "7" -> 7
    [] c = "8" -> 8 [] c = "9" -> 9

\* the value JavaScript's NaN is modelled by: every comparison with it is false
NaN == 0

RECURSIVE ParseDigits(_, _)
ParseDigits(s, acc) ==
  IF s = <<>> \/ ~IsDigit(Head(s)) THEN acc
  ELSE ParseDigits(Tail(s), 10 * acc + DigitVal(Head(s)))

\* parseInt(s, 10) of a string without sign or leading blanks
parseInt(s) ==
  IF s = <<>> \/ ~IsDigit(Head(s)) THEN NaN ELSE ParseDigits(s, 0)

\* s.indexOf(sep) for a one-token separator, 0 when absent (1-based)
RECURSIVE IndexOf(_, _, _)
IndexOf(s, sep, i) ==
  IF i > Len(s) THEN 0
  ELSE IF s[i] = sep THEN i
  ELSE IndexOf(s, sep, i + 1)

\* s.split(sep) for a one-token separator: the list of the pieces
\* (str and i stand for the values of s and of its first separator's place)
RECURSIVE Split(_, _)
Split(s, sep) ==
  CHOOSE pieces \in
    { IF i = 0 THEN <<str>>
      ELSE <<SubSeq(str, 1, i - 1)>> \o Split(SubSeq(str, i + 1, Len(str)), sep) :
        <<str, i>> \in {<<s, IndexOf(s, sep, 1)>>} } : TRUE

\* parts.join(sep)
RECURSIVE JoinWith(_, _)
JoinWith(parts, sep) ==
  IF parts = <<>> THEN <<>>
  ELSE IF Len(parts) = 1 THEN parts[1]
  ELSE parts[1] \o sep \o JoinWith(Tail(parts), sep)

(***************************************************************************)
(* Node's path module (POSIX).                                             *)
(***************************************************************************)
\* the segments of a path with "", "." dropped and ".." resolved
RECURSIVE NormSegments(_, _)
NormSegments(segs, acc) ==
  IF segs = <<>> THEN acc
  ELSE LET s == Head(segs) IN
       IF s = <<>> \/ s = <<".">> THEN NormSegments(Tail(segs), acc)
       ELSE IF s = <<".", ".">>
         THEN NormSegments(Tail(segs),
                IF acc = <<>> THEN acc ELSE SubSeq(acc, 1, Len(acc) - 1))
       ELSE NormSegments(Tail(segs), Append(acc, s))

\* an absolute path from its segments
RECURSIVE FromSegments(_)
FromSegments(segs) ==
  IF segs = <<>> THEN <<>>
  ELSE <<"/">> \o Head(segs) \o FromSegments(Tail(segs))

\* (pieces and segs stand for the values of the split and of its normal form)
NormalizeAbs(path) ==
  CHOOSE abs \in
    { IF segs = <<>> THEN <<"/">> ELSE FromSegments(segs) :
        segs \in {NormSegments(pieces, <<>>) : pieces \in {Split(path, "/")}} } : TRUE

IsAbsolute(path) == path # <<>> /\ Head(path) = "/"

\* path.resolve(p) in a process whose working directory is cwd
pathResolve(cwd, path) ==
  IF IsAbsolute(path) THEN NormalizeAbs(path)
  ELSE NormalizeAbs(cwd \o <<"/">> \o path)

\* path.join(a, b) of an absolute a
pathJoin(a, b) == NormalizeAbs(a \o <<"/">> \o b)

(***************************************************************************)
(* escapePathForNodeJs, and how Node reads the text it produces.           *)
(***************************************************************************)
\* path.replace(/\\/, "\\\\"): only the first backslash is doubled
EscapeFirstOnly(path) ==
  LET i == IndexOf(path, BS, 1) IN
  IF i = 0 THEN path
  ELSE SubSeq(path, 1, i) \o <<BS>> \o SubSeq(path, i + 1, Len(path))

\* path.replace(/\\/g, "\\\\"): every backslash is doubled
RECURSIVE EscapeAll(_)
EscapeAll(path) ==
  IF path = <<>> THEN <<>>
  ELSE IF Head(path) = BS THEN <<BS, BS>> \o EscapeAll(Tail(path))
  ELSE <<Head(path)>> \o EscapeAll(Tail(path))

escapePathForNodeJs(path) == CHOOSE text \in {EscapeAll(str) : str \in {path}} : TRUE

\* The value of the double-quoted string literal whose body is text: a
\* doubled backslash is one backslash, a backslash before another character
\* is an escape sequence that leaves no backslash, a backslash at the end
\* leaves the literal unterminated.
\* (rest stands for the value of the rest of the literal)
RECURSIVE ReadStringLiteral(_)
ReadStringLiteral(text) ==
  IF text = <<>> THEN <<>>
  ELSE IF Head(text) # BS
    THEN CHOOSE val \in
           { IF rest = SyntaxError THEN SyntaxError ELSE <<Head(text)>> \o rest :
               rest \in {ReadStringLiteral(Tail(text))} } : TRUE
  ELSE IF Len(text) = 1 THEN SyntaxError
  ELSE CHOOSE val \in
         { IF rest = SyntaxError THEN SyntaxError ELSE <<text[2]>> \o rest :
             rest \in {ReadStringLiteral(SubSeq(text, 3, Len(text)))} } : TRUE

(***************************************************************************)
(* The inputs of a build: the properties, the host, the installation.      *)
(***************************************************************************)
WebpackVariant == "webpack"
OldWebpackVariant == "webpack-old"
RollupVariant == "rollup"
Variants == {WebpackVariant, OldWebpackVariant, RollupVariant}
WebpackVariants == {WebpackVariant, OldWebpackVariant}

\* lambda.Runtime values: the identifier and the family
NoRuntime == [name |-> Undefined, family |-> "undefined"]
NODEJS_10_X == [name |-> <<"nodejs", "1", "0", ".", "x">>, family |-> "NODEJS"]
NODEJS_12_X == [name |-> <<"nodejs", "1", "2", ".", "x">>, family |-> "NODEJS"]
PYTHON_3_8 == [name |-> <<"python", "3", ".", "8">>, family |-> "PYTHON"]
\* new lambda.Runtime("provided-node", RuntimeFamily.NODEJS)
CUSTOM_NODE == [name |-> <<"provided-node">>, family |-> "NODEJS"]
\* lambda.Runtime.NODEJS, whose name has no version
NODEJS == [name |-> <<"nodejs">>, family |-> "NODEJS"]
Runtimes == {NoRuntime, NODEJS_10_X, NODEJS_12_X, PYTHON_3_8, CUSTOM_NODE, NODEJS}

\* props.entry
Entries ==
  { <<"events", "/", "foo", ".", "js">>,
    <<"/", "srv", "/", "b", ".", "ts">>,
    <<".", "/", "lib", "/", ".", ".", "/", "h", ".", "ts">>,
    <<"win", BS, "h", ".", "js">>,
    <<>>,
    <<"handler">>,
    <<"a", ".", "jsx">>,
    <<"a", ".", "js", ".", "map">>,
    <<"js">> }

\* props.handler
Handlers == {Undefined, <<"run">>}

\* props.awsSdkConnectionReuse
ConnectionReuse == {"undefined", "true", "false"}

\* props.modulesToIgnore: absent, or a list of module names
NoModules == [given |-> FALSE, list |-> <<>>]
ModuleLists ==
  { NoModules,
    [given |-> TRUE, list |-> <<>>],
    [given |-> TRUE, list |-> << <<"pg-native">>, <<"tedious">> >>] }

\* the files on the disk: none, the project's, another checkout's
Disks ==
  { {},
    { <<"/", "w", "/", "events", "/", "foo", ".", "js">>,
      <<"/", "w", "/", "h", ".", "ts">>,
      <<"/", "w", "/", "win", BS, "h", ".", "js">> },
    { <<"/", "srv", "/", "b", ".", "ts">>,
      <<"/", "w", "/", "events", "/", "foo", ".", "js">> } }

\* process.versions.node
HostVersions ==
  { <<"8", ".", "1", "7", ".", "0">>,
    <<"1", "2", ".", "0", ".", "0">>,
    <<"1", "4", ".", "4", ".", "0">> }

\* process.cwd(), os.tmpdir()
Cwd == <<"/", "w">>
TmpDir == <<"/", "tmp">>

\* the names mkdtemp can append; one more than the builds of a run
SuffixTable == <<"Ab3dE1", "Zx9QpL", "m0N7ty", "k2JhW8", "Qr5sTu", "v6WxYz">>
Suffixes == {SuffixTable[i] : i \in 1..(MaxBuilds + 1)}

\* the helper modules the webpack constructor locates
ModuleNames ==
  { <<"webpack-cli">>, <<"webpack">>, <<"babel-loader">>,
    <<"@babel", "/", "preset-env">>,
    <<"@babel", "/", "plugin-transform-runtime">>,
    <<"babel-plugin-source-map-support">>, <<"noop2">>,
    <<"terser-webpack-plugin">>, <<"ts-loader">> }

\* An installation: where this package's dependencies are installed, and
\* for each helper module whether require.resolve finds it from __dirname
\* and whether find-up finds a directory of its name above pluginsPath.
Installed(req, up) == [m \in ModuleNames |-> [req |-> req, up |-> up]]
Without(inst, m) == [inst EXCEPT ![m] = [req |-> FALSE, up |-> FALSE]]
\* a linked install: the webpack-cli executable resolves, the other helper
\* modules are found only as directories above pluginsPath
Linked == [Installed(FALSE, TRUE) EXCEPT ![<<"webpack-cli">>] = [req |-> TRUE, up |-> TRUE]]
Installs ==
  { [root |-> <<"/", "app">>, mods |-> Installed(TRUE, TRUE)],
    [root |-> <<"/", "link">>, mods |-> Linked],
    [root |-> <<"/", "app">>, mods |-> Without(Installed(TRUE, FALSE), <<"noop2">>)],
    [root |-> <<"/", "link">>, mods |-> Without(Linked, <<"ts-loader">>)],
    [root |-> <<"/", "app">>, mods |-> Without(Installed(TRUE, TRUE), <<"webpack-cli">>)] }
NoInstall == [root |-> <<>>, mods |-> Installed(FALSE, FALSE)]

\* What spawnSync can return: an exit status, or no status when the
\* executable could not be started or was killed by a signal.  wrote: the
\* bundler emitted output files before it ended.
NoChild == [status |-> "none", error |-> "none", output |-> Undefined, wrote |-> FALSE]
SpawnResults ==
  { [status |-> "0", error |-> "none", output |-> <<"bundled">>, wrote |-> TRUE],
    [status |-> "1", error |-> "none", output |-> <<"Module not found">>, wrote |-> FALSE],
    [status |-> "2", error |-> "none", output |-> <<"errors">>, wrote |-> TRUE],
    [status |-> "null", error |-> "ENOENT", output |-> Undefined, wrote |-> FALSE],
    [status |-> "null", error |-> "SIGKILL", output |-> <<"partial">>, wrote |-> TRUE] }

(***************************************************************************)
(* The state.                                                              *)
(***************************************************************************)
VARIABLES
  pc,             \* where the running constructor is
  variant,        \* which constructor runs
  props,          \* its props argument
  disk,           \* the files that exist while it runs
  entryFullPath,  \* const entryFullPath (entry in the rollup constructor)
  handler,        \* const handler
  runtime,        \* const runtime
  outputDir,      \* const outputDir
  inst,           \* the installation the module lookups of this build see
  webpackBinPath, \* const webpackBinPath
  pluginsPath,    \* const pluginsPath
  pluginsPaths,   \* const pluginsPaths
  config,         \* const webpackConfiguration / the rollup template
  written,        \* what writeFileSync wrote to the configuration file
  child,          \* const webpack / const rollup: what spawnSync returned
  log,            \* what the build wrote to the console
  calls,          \* the fs and child_process calls the build made, in order
  descriptor,     \* the props handed to super(scope, id, ...)
  error,          \* the error the constructor threw
  hostNode,       \* process.versions.node
  exitCode,       \* the status process.exit ended the process with
  nBuilds,        \* constructions started so far
  dirs,           \* temporary directories created, each with its build
  files,          \* files in them, each with the build that wrote it
  firstSynth,     \* the first rewrite section synthesized in this run
  p,              \* a path handed to escapePathForNodeJs
  escaped,        \* its result
  parsed          \* the result read back as a string literal

buildVars ==
  <<pc, variant, props, disk, entryFullPath, handler, runtime, outputDir, inst,
    webpackBinPath, pluginsPath, pluginsPaths, config, written, child, log,
    calls, descriptor, error>>
procVars == <<hostNode, exitCode, nBuilds, dirs, files, firstSynth>>
escVars == <<p, escaped, parsed>>
vars == <<buildVars, procVars, escVars>>

NoProps ==
  [entry |-> <<>>, handler |-> Undefined, runtime |-> NoRuntime,
   modulesToIgnore |-> NoModules, awsSdkConnectionReuse |-> "undefined"]
NoConfig == [kind |-> "none"]
NoDescriptor == [built |-> FALSE]
NoSynth == [kind |-> "none"]
NoPaths == [m \in {} |-> <<>>]

(***************************************************************************)
(* Pure steps of the constructors.                                         *)
(***************************************************************************)
\* /\.(js|ts)$/.test(entry)
HasSourceExtension(entry) ==
  /\ Len(entry) >= 2
  /\ entry[Len(entry) - 1] = "."
  /\ entry[Len(entry)] \in {"js", "ts"}

\* function nodeMajorVersion()
nodeMajorVersion(versionsNode) == parseInt(Split(versionsNode, ".")[1])

\* nodeMajorVersion() > 12 instead of >= 12
DefaultRunTimeStrict(versionsNode) ==
  IF nodeMajorVersion(versionsNode) > 12 THEN NODEJS_12_X ELSE NODEJS_10_X

\* const defaultRunTime
defaultRunTime(versionsNode) ==
  IF nodeMajorVersion(versionsNode) >= 12 THEN NODEJS_12_X ELSE NODEJS_10_X

\* the value a TypeError replaces
TypeError == <<"<TypeError>">>

\* runtime.name.split("nodejs")[1].split(".")[0]
TargetNode(rt) ==
  LET parts == Split(rt.name, "nodejs") IN
  IF Len(parts) < 2 THEN TypeError ELSE Split(parts[2], ".")[1]

\* path.join(os.tmpdir(), "aws-lambda-nodejs-webpack") and its rollup twin
TmpPrefix(v) ==
  pathJoin(TmpDir, IF v = RollupVariant THEN <<"aws-lambda-nodejs-rollup">>
                   ELSE <<"aws-lambda-nodejs-webpack">>)

\* a directory created at the prefix itself, whatever exists
MkdirAtPrefix(prefix, existing) == {prefix \o <<SuffixTable[1]>>}

\* fs.mkdtempSync(prefix): the directories it can create and return, each
\* the prefix and a suffix such that no directory of that name exists
mkdtempSync(prefix, existing) ==
  {prefix \o <<sfx>> : sfx \in Suffixes} \ existing

\* path.join(outputDir, "webpack.config.js") / "rollup.config.js"
ConfigName(v) ==
  IF v = RollupVariant THEN <<"rollup", ".", "config", ".", "js">>
  ELSE <<"webpack", ".", "config", ".", "js">>
ConfigPath(v, dir) == pathJoin(dir, ConfigName(v))

\* s.lastIndexOf("/node_modules"), 0 when absent (1-based)
RECURSIVE LastIndexOfNodeModules(_, _)
LastIndexOfNodeModules(s, i) ==
  IF i < 1 THEN 0
  ELSE IF i < Len(s) /\ s[i] = "/" /\ s[i + 1] = "node_modules" THEN i
  ELSE LastIndexOfNodeModules(s, i - 1)

\* path.join(bin.slice(0, bin.lastIndexOf("/node_modules")), "node_modules");
\* slice(0, -1) drops the last token when "/node_modules" is absent
PluginsPathOf(bin) ==
  LET i == LastIndexOfNodeModules(bin, Len(bin)) IN
  pathJoin(IF i = 0 THEN SubSeq(bin, 1, Len(bin) - 1) ELSE SubSeq(bin, 1, i - 1),
           <<"node_modules">>)

\* what require.resolve returns for a module it finds
ResolvedBin(install) ==
  install.root \o <<"/", "node_modules", "/", "webpack-cli", "/", "bin", "/", "cli", ".", "js">>
ResolvedMain(install, moduleName) ==
  install.root \o <<"/", "node_modules", "/">> \o moduleName \o <<"/", "index", ".", "js">>
\* __filename of the compiled construct
ThisFile(install) ==
  install.root \o <<"/", "node_modules", "/", "aws-lambda-nodejs-webpack", "/",
                    "dist", "/", "index", ".", "js">>

\* the value findModulePath's throw replaces
CantFind == <<"<Error: Can't find module>">>

\* find-up tried first, require.resolve only when it finds nothing
FindModulePathUpFirst(moduleName, plugins, install) ==
  IF install.mods[moduleName].up THEN pathJoin(plugins, moduleName)
  ELSE IF install.mods[moduleName].req THEN ResolvedMain(install, moduleName)
  ELSE <<"<Error: Can't find module>">>

\* function findModulePath(moduleName, pluginsPath)
findModulePath(moduleName, plugins, install) ==
  IF install.mods[moduleName].req THEN ResolvedMain(install, moduleName)
  ELSE IF install.mods[moduleName].up THEN pathJoin(plugins, moduleName)
  ELSE CantFind

\* the modules of const pluginsPaths
LocatedNames == ModuleNames \ {<<"webpack-cli">>, <<"ts-loader">>}

\* the handler looked for in index.js, where no webpack output is
IndexHandler(h) == <<"index", ".">> \o h
\* `main.${handler}`
MainHandler(h) == <<"main", ".">> \o h
\* `index.${handler}`
RollupHandler(h) == <<"index", ".">> \o h

(***************************************************************************)
(* The synthesized configurations.  A configuration is the template's      *)
(* text with one field per interpolated expression: the field holds the    *)
(* text the expression put into the file.                                  *)
(***************************************************************************)
CacheDir(tool) ==
  pathJoin(Cwd, <<"node_modules", "/", ".", "cache", "/",
                  "aws-lambda-nodejs-webpack", "/", tool>>)

\* the names joined with "," instead of "|"
PluginsSectionCommaJoined(modulesToIgnore, noop) ==
  IF modulesToIgnore.given
  THEN [present |-> TRUE,
        pattern |-> EscapeAll(JoinWith(modulesToIgnore.list, <<",">>)),
        replacement |-> EscapeAll(noop)]
  ELSE [present |-> FALSE]

\* ${(props.modulesToIgnore && ` plugins: [ ... ] `) || ""}
PluginsSection(modulesToIgnore, noop) ==
  IF modulesToIgnore.given
  THEN [present |-> TRUE,
        pattern |-> escapePathForNodeJs(JoinWith(modulesToIgnore.list, <<"|">>)),
        replacement |-> escapePathForNodeJs(noop)]
  ELSE [present |-> FALSE]

\* the older template's section: nothing is escaped
OldPluginsSection(modulesToIgnore, noop) ==
  IF modulesToIgnore.given
  THEN [present |-> TRUE,
        pattern |-> JoinWith(modulesToIgnore.list, <<"|">>),
        replacement |-> noop]
  ELSE [present |-> FALSE]

\* the current template up to its plugins section
WebpackTemplate(entry, dir, rt, paths, tsLoader, install) ==
  [kind |-> WebpackVariant,
   webpack |-> escapePathForNodeJs(paths[<<"webpack">>]),
   terser |-> escapePathForNodeJs(paths[<<"terser-webpack-plugin">>]),
   entry |-> escapePathForNodeJs(entry),
   resolveModules |-> escapePathForNodeJs(Cwd),
   context |-> escapePathForNodeJs(Cwd),
   babelLoader |-> escapePathForNodeJs(paths[<<"babel-loader">>]),
   babelCwd |-> escapePathForNodeJs(Cwd),
   babelCacheDirectory |-> escapePathForNodeJs(CacheDir(<<"babel">>)),
   presetEnv |-> escapePathForNodeJs(paths[<<"@babel", "/", "preset-env">>]),
   targetNode |-> TargetNode(rt),
   transformRuntime |->
     escapePathForNodeJs(paths[<<"@babel", "/", "plugin-transform-runtime">>]),
   sourceMapSupport |->
     escapePathForNodeJs(paths[<<"babel-plugin-source-map-support">>]),
   tsLoader |-> escapePathForNodeJs(tsLoader),
   tsContext |-> escapePathForNodeJs(Cwd),
   tsConfigFile |-> escapePathForNodeJs(pathJoin(Cwd, <<"tsconfig", ".", "json">>)),
   buildDependencies |-> escapePathForNodeJs(ThisFile(install)),
   cacheDirectory |-> escapePathForNodeJs(CacheDir(<<"webpack">>)),
   outputPath |-> escapePathForNodeJs(dir),
   outputQuoted |-> TRUE]

\* the replacement module looked for inside the output directory
WebpackConfigurationNoopInDir(entry, dir, rt, paths, tsLoader, modulesToIgnore, install) ==
  WebpackTemplate(entry, dir, rt, paths, tsLoader, install)
    @@ [plugins |-> PluginsSection(modulesToIgnore, pathJoin(dir, <<"noop2">>))]

\* const webpackConfiguration of the current constructor
webpackConfiguration(entry, dir, rt, paths, tsLoader, modulesToIgnore, install) ==
  WebpackTemplate(entry, dir, rt, paths, tsLoader, install)
    @@ [plugins |-> PluginsSection(modulesToIgnore, paths[<<"noop2">>])]

\* const webpackConfiguration of the older constructor
oldWebpackConfiguration(entry, dir, rt, plugins, modulesToIgnore) ==
  [kind |-> OldWebpackVariant,
   webpack |-> pathJoin(plugins, <<"webpack">>),
   entry |-> entry,
   babelLoader |-> pathJoin(plugins, <<"babel-loader">>),
   presetEnv |-> pathJoin(plugins, <<"@babel", "/", "preset-env">>),
   targetNode |-> TargetNode(rt),
   transformRuntime |-> pathJoin(plugins, <<"@babel", "/", "plugin-transform-runtime">>),
   sourceMapSupport |-> pathJoin(plugins, <<"babel-plugin-source-map-support">>),
   outputPath |-> dir,
   outputQuoted |-> TRUE,
   plugins |-> OldPluginsSection(modulesToIgnore, pathJoin(plugins, <<"noop2">>))]

\* the template the rollup constructor writes
rollupConfiguration(entry, dir) ==
  [kind |-> RollupVariant,
   entry |-> entry,
   outputPath |-> dir,
   outputQuoted |-> FALSE]

\* The directory the bundler emits into: the configuration's output path
\* as the bundler reads it (a quoted field is a string literal).
BundlerOutputDir(cfg) ==
  IF cfg.outputQuoted THEN ReadStringLiteral(cfg.outputPath) ELSE cfg.outputPath

(***************************************************************************)
(* The constructors, step by step.                                         *)
(***************************************************************************)
Throw(kind) ==
  /\ pc' = "thrown"
  /\ error' = kind

\* new NodejsFunction(scope, id, props), in a process that has not exited
New(limit, entrySet, handlerSet, runtimeSet, moduleSet, reuseSet, diskSet) ==
  /\ pc \in {"idle", "thrown", "done"}
  /\ exitCode = "none"
  /\ nBuilds < limit
  /\ \E v \in Variants, e \in entrySet, h \in handlerSet,
        r \in runtimeSet, m \in moduleSet, c \in reuseSet :
       /\ variant' = v
       /\ props' = [entry |-> e, handler |-> h, runtime |-> r,
                    modulesToIgnore |-> m, awsSdkConnectionReuse |-> c]
  /\ disk' \in diskSet
  /\ nBuilds' = nBuilds + 1
  /\ pc' = "checkRuntime"
  /\ entryFullPath' = <<>>
  /\ handler' = <<>>
  /\ runtime' = NoRuntime
  /\ outputDir' = <<>>
  /\ inst' = NoInstall
  /\ webpackBinPath' = <<>>
  /\ pluginsPath' = <<>>
  /\ pluginsPaths' = NoPaths
  /\ config' = NoConfig
  /\ written' = NoConfig
  /\ child' = NoChild
  /\ log' = <<>>
  /\ calls' = <<>>
  /\ descriptor' = NoDescriptor
  /\ error' = "none"
  /\ UNCHANGED <<hostNode, exitCode, dirs, files, firstSynth, escVars>>

\* if (props.runtime && props.runtime.family !== lambda.RuntimeFamily.NODEJS)
CheckRuntime ==
  /\ pc = "checkRuntime"
  /\ IF props.runtime # NoRuntime /\ props.runtime.family # "NODEJS"
     THEN Throw("OnlyNodejsRuntimes")
     ELSE pc' = "checkExtension" /\ UNCHANGED error
  /\ UNCHANGED <<calls, variant, props, disk, entryFullPath, handler, runtime, outputDir, inst,
                 webpackBinPath, pluginsPath, pluginsPaths, config, written, child,
                 log, descriptor, procVars, escVars>>

\* if (!/\.(js|ts)$/.test(props.entry)); the rollup constructor logs the entry first
CheckExtension ==
  /\ pc = "checkExtension"
  /\ log' = IF variant = RollupVariant
            THEN Append(log, [tag |-> "entry", val |-> props.entry]) ELSE log
  /\ IF ~HasSourceExtension(props.entry)
     THEN Throw("InvalidEntryExtension")
     ELSE pc' = "resolveEntry" /\ UNCHANGED error
  /\ UNCHANGED <<calls, variant, props, disk, entryFullPath, handler, runtime, outputDir, inst,
                 webpackBinPath, pluginsPath, pluginsPaths, config, written, child,
                 descriptor, procVars, escVars>>

\* the entry taken as given, without path.resolve
ResolveEntryPathRaw(entry) == entry

\* const entryFullPath = path.resolve(props.entry)
ResolveEntryPath(entry) == pathResolve(Cwd, entry)

\* fs.existsSync(path): relative paths are taken from the working directory
existsSync(path, onDisk) == pathResolve(Cwd, path) \in onDisk

\* the temporary directory created before the existence check
ResolveEntryDirFirst ==
  /\ pc = "resolveEntry"
  /\ entryFullPath' = ResolveEntryPath(props.entry)
  /\ \E d \in mkdtempSync(TmpPrefix(variant), {o.dir : o \in dirs}) :
       /\ outputDir' = d
       /\ calls' = Append(calls, [op |-> "mkdtempSync", path |-> d])
       /\ dirs' = dirs \cup {[dir |-> d, by |-> nBuilds]}
  /\ IF ~existsSync(entryFullPath', disk)
     THEN Throw("EntryNotFound")
     ELSE pc' = "defaults" /\ UNCHANGED error
  /\ UNCHANGED <<variant, props, disk, handler, runtime, inst,
                 webpackBinPath, pluginsPath, pluginsPaths, config, written, child,
                 log, descriptor, hostNode, exitCode, nBuilds, files, firstSynth,
                 escVars>>

\* path.resolve, then if (!fs.existsSync(entryFullPath)) throw
ResolveEntry ==
  /\ pc = "resolveEntry"
  /\ entryFullPath' = ResolveEntryPath(props.entry)
  /\ IF ~existsSync(entryFullPath', disk)
     THEN Throw("EntryNotFound")
     ELSE pc' = "defaults" /\ UNCHANGED error
  /\ UNCHANGED <<calls, variant, props, disk, handler, runtime, outputDir, inst,
                 webpackBinPath, pluginsPath, pluginsPaths, config, written, child,
                 log, descriptor, procVars, escVars>>

\* const handler, const defaultRunTime, const runtime
Defaults ==
  /\ pc = "defaults"
  /\ handler' = IF props.handler = Undefined THEN <<"handler">> ELSE props.handler
  /\ runtime' = IF props.runtime = NoRuntime THEN defaultRunTime(hostNode)
                ELSE props.runtime
  /\ pc' = "mkdtemp"
  /\ UNCHANGED <<calls, variant, props, disk, entryFullPath, outputDir, inst,
                 webpackBinPath, pluginsPath, pluginsPaths, config, written, child,
                 log, descriptor, error, procVars, escVars>>

\* const outputDir = fs.mkdtempSync(...)
Mkdtemp ==
  /\ pc = "mkdtemp"
  /\ \E d \in mkdtempSync(TmpPrefix(variant), {o.dir : o \in dirs}) :
       /\ outputDir' = d
       /\ calls' = Append(calls, [op |-> "mkdtempSync", path |-> d])
       /\ dirs' = dirs \cup {[dir |-> d, by |-> nBuilds]}
  /\ pc' = IF variant = RollupVariant THEN "write" ELSE "locate"
  /\ UNCHANGED <<variant, props, disk, entryFullPath, handler, runtime, inst,
                 webpackBinPath, pluginsPath, pluginsPaths, config, written, child,
                 log, descriptor, error, hostNode, exitCode, nBuilds, files,
                 firstSynth, escVars>>

\* require.resolve of the webpack-cli executable, const pluginsPath and
\* (current constructor) const pluginsPaths
Locate ==
  /\ pc = "locate"
  /\ \E i \in Installs :
       /\ inst' = i
       /\ IF ~i.mods[<<"webpack-cli">>].req
          THEN /\ Throw("ModuleNotFound")
               /\ UNCHANGED <<webpackBinPath, pluginsPath, pluginsPaths>>
          ELSE LET bin == ResolvedBin(i)
                   plugins == PluginsPathOf(bin)
                   paths == [m \in LocatedNames |-> findModulePath(m, plugins, i)]
               IN /\ webpackBinPath' = bin
                  /\ pluginsPath' = plugins
                  /\ IF variant = WebpackVariant
                     THEN IF \E m \in LocatedNames : paths[m] = CantFind
                          THEN Throw("CantFindModule") /\ UNCHANGED pluginsPaths
                          ELSE /\ pluginsPaths' = paths
                               /\ pc' = "synth"
                               /\ UNCHANGED error
                     ELSE /\ pc' = "synth"
                          /\ UNCHANGED <<pluginsPaths, error>>
  /\ UNCHANGED <<calls, variant, props, disk, entryFullPath, handler, runtime, outputDir,
                 config, written, child, log, descriptor, procVars, escVars>>

\* what the run remembers of a rewrite section: its inputs and its text
SynthRecord(cfg, noop) ==
  [kind |-> cfg.kind, build |-> nBuilds, modulesToIgnore |-> props.modulesToIgnore,
   noop |-> noop, plugins |-> cfg.plugins]

\* the template literal of the webpack constructors is evaluated
Synth ==
  /\ pc = "synth"
  /\ IF TargetNode(runtime) = TypeError
     THEN Throw("TypeError") /\ UNCHANGED <<config, firstSynth>>
     ELSE IF variant = WebpackVariant
       THEN LET tsLoader == findModulePath(<<"ts-loader">>, pluginsPath, inst)
                cfg == webpackConfiguration(entryFullPath, outputDir, runtime,
                         pluginsPaths, tsLoader, props.modulesToIgnore, inst)
            IN IF tsLoader = CantFind
               THEN Throw("CantFindModule") /\ UNCHANGED <<config, firstSynth>>
               ELSE /\ config' = cfg
                    /\ firstSynth' = IF firstSynth = NoSynth
                                     THEN SynthRecord(cfg, pluginsPaths[<<"noop2">>])
                                     ELSE firstSynth
                    /\ pc' = "write"
                    /\ UNCHANGED error
       ELSE LET cfg == oldWebpackConfiguration(entryFullPath, outputDir, runtime,
                         pluginsPath, props.modulesToIgnore)
            IN /\ config' = cfg
               /\ firstSynth' = IF firstSynth = NoSynth
                                THEN SynthRecord(cfg, pathJoin(pluginsPath, <<"noop2">>))
                                ELSE firstSynth
               /\ pc' = "write"
               /\ UNCHANGED error
  /\ UNCHANGED <<calls, variant, props, disk, entryFullPath, handler, runtime, outputDir, inst,
                 webpackBinPath, pluginsPath, pluginsPaths, written, child, log,
                 descriptor, hostNode, exitCode, nBuilds, dirs, files, escVars>>

\* fs.writeFileSync(webpackConfigPath, webpackConfiguration); the rollup
\* constructor builds its template in the call
Write ==
  /\ pc = "write"
  /\ LET cfg == IF variant = RollupVariant
                THEN rollupConfiguration(entryFullPath, outputDir) ELSE config
     IN /\ config' = cfg
        /\ written' = cfg
        /\ calls' = Append(calls, [op |-> "writeFileSync",
                                   path |-> ConfigPath(variant, outputDir)])
        /\ files' = files \cup
             {[dir |-> outputDir, name |-> ConfigName(variant), by |-> nBuilds]}
  /\ pc' = "spawn"
  /\ UNCHANGED <<variant, props, disk, entryFullPath, handler, runtime, outputDir, inst,
                 webpackBinPath, pluginsPath, pluginsPaths, child, log, descriptor,
                 error, hostNode, exitCode, nBuilds, dirs, firstSynth, escVars>>

\* the bundler given the project's own configuration file
SpawnCallProjectConfig ==
  [bin |-> IF variant = RollupVariant
           THEN <<".", "/", "node_modules", "/", ".", "bin", "/", "rollup">>
           ELSE webpackBinPath,
   flag |-> IF variant = RollupVariant THEN <<"-c">> ELSE <<"--config">>,
   configArg |-> ConfigPath(variant, Cwd),
   cwd |-> IF variant = WebpackVariant THEN outputDir ELSE Cwd]

\* the executable, the arguments and the working directory of spawnSync
SpawnCall ==
  [bin |-> IF variant = RollupVariant
           THEN <<".", "/", "node_modules", "/", ".", "bin", "/", "rollup">>
           ELSE webpackBinPath,
   flag |-> IF variant = RollupVariant THEN <<"-c">> ELSE <<"--config">>,
   configArg |-> ConfigPath(variant, outputDir),
   cwd |-> IF variant = WebpackVariant THEN outputDir ELSE Cwd]

\* the bundler started without waiting for it, as child_process.spawn does
SpawnDetached ==
  /\ pc = "spawn"
  /\ calls' = Append(calls, [op |-> "spawnSync", path |-> SpawnCall.configArg])
  /\ pc' = IF variant = RollupVariant THEN "report" ELSE "interpret"
  /\ UNCHANGED <<variant, props, disk, entryFullPath, handler, runtime, outputDir, inst,
                 webpackBinPath, pluginsPath, pluginsPaths, config, written, child, log,
                 descriptor, error, procVars, escVars>>

\* spawn.sync / spawnSync blocks until the bundler has ended
Spawn ==
  /\ pc = "spawn"
  /\ \E r \in SpawnResults :
       /\ child' = r @@ SpawnCall
       /\ calls' = Append(calls, [op |-> "spawnSync", path |-> SpawnCall.configArg])
       /\ files' = IF r.wrote
                   THEN files \cup {[dir |-> BundlerOutputDir(config),
                                     name |-> <<"bundle">>, by |-> nBuilds]}
                   ELSE files
  /\ pc' = IF variant = RollupVariant THEN "report" ELSE "interpret"
  /\ UNCHANGED <<variant, props, disk, entryFullPath, handler, runtime, outputDir, inst,
                 webpackBinPath, pluginsPath, pluginsPaths, config, written, log,
                 descriptor, error, hostNode, exitCode, nBuilds, dirs, firstSynth,
                 escVars>>

\* console.log(outputDir); console.log(rollup)
Report ==
  /\ pc = "report"
  /\ log' = log \o <<[tag |-> "outputDir", val |-> outputDir],
                     [tag |-> "result", status |-> child.status,
                      val |-> child.output]>>
  /\ pc' = "super"
  /\ UNCHANGED <<calls, variant, props, disk, entryFullPath, handler, runtime, outputDir, inst,
                 webpackBinPath, pluginsPath, pluginsPaths, config, written, child,
                 descriptor, error, procVars, escVars>>

\* if (webpack.status !== 0)
SpawnFailed(c) == c.status # "0"

\* what the failure branch writes with console.error
FailureLog(c, cfg) ==
  (IF variant = WebpackVariant
   THEN <<[tag |-> "message", val |-> <<"Return status was", c.status>>],
          [tag |-> "error", val |-> <<c.error>>]>>
   ELSE <<[tag |-> "message", val |-> <<"webpack had an error when bundling.">>]>>)
  \o <<[tag |-> "output", val |-> c.output],
       [tag |-> "configuration", text |-> cfg]>>

\* the status check after spawnSync: console.error and process.exit(1)
Interpret ==
  /\ pc = "interpret"
  /\ IF SpawnFailed(child)
     THEN /\ log' = log \o FailureLog(child, config)
          /\ exitCode' = "1"
          /\ pc' = "exited"
     ELSE /\ pc' = IF variant = OldWebpackVariant THEN "unlink" ELSE "super"
          /\ UNCHANGED <<log, exitCode>>
  /\ UNCHANGED <<calls, variant, props, disk, entryFullPath, handler, runtime, outputDir, inst,
                 webpackBinPath, pluginsPath, pluginsPaths, config, written, child,
                 descriptor, error, hostNode, nBuilds, dirs, files, firstSynth,
                 escVars>>

\* fs.unlinkSync(webpackConfigPath) of the older constructor
Unlink ==
  /\ pc = "unlink"
  /\ files' = {f \in files :
                 ~(f.dir = outputDir /\ f.name = ConfigName(variant))}
  /\ calls' = Append(calls, [op |-> "unlinkSync", path |-> ConfigPath(variant, outputDir)])
  /\ pc' = "super"
  /\ UNCHANGED <<variant, props, disk, entryFullPath, handler, runtime, outputDir, inst,
                 webpackBinPath, pluginsPath, pluginsPaths, config, written, child,
                 log, descriptor, error, hostNode, exitCode, nBuilds, dirs,
                 firstSynth, escVars>>

\* the handler property of the super call
HandlerReference(v, h) ==
  IF v = RollupVariant THEN RollupHandler(h) ELSE MainHandler(h)

\* super(scope, id, {...props, runtime, code, handler})
Super ==
  /\ pc = "super"
  /\ descriptor' =
       [built |-> TRUE, runtime |-> runtime, code |-> outputDir,
        handler |-> HandlerReference(variant, handler), environment |-> {}]
  /\ pc' = "environment"
  /\ UNCHANGED <<calls, variant, props, disk, entryFullPath, handler, runtime, outputDir, inst,
                 webpackBinPath, pluginsPath, pluginsPaths, config, written, child,
                 log, error, procVars, escVars>>

\* this.addEnvironment(...) after the super call
AddEnvironment ==
  /\ pc = "environment"
  /\ descriptor' =
       [descriptor EXCEPT !.environment =
          (IF props.awsSdkConnectionReuse # "false"
           THEN {<<"AWS_NODEJS_CONNECTION_REUSE_ENABLED", "1">>} ELSE {})
          \cup (IF variant = RollupVariant THEN {}
                ELSE {<<"NODE_OPTIONS", "--enable-source-maps">>})]
  /\ pc' = "done"
  /\ UNCHANGED <<calls, variant, props, disk, entryFullPath, handler, runtime, outputDir, inst,
                 webpackBinPath, pluginsPath, pluginsPaths, config, written, child,
                 log, error, procVars, escVars>>

Step ==
  \/ CheckRuntime
  \/ CheckExtension
  \/ ResolveEntry
  \/ Defaults
  \/ Mkdtemp
  \/ Locate
  \/ Synth
  \/ Write
  \/ Spawn
  \/ Report
  \/ Interpret
  \/ Unlink
  \/ Super
  \/ AddEnvironment

IdleBuild ==
  /\ pc = "idle"
  /\ variant = WebpackVariant
  /\ props = NoProps
  /\ disk = {}
  /\ entryFullPath = <<>>
  /\ handler = <<>>
  /\ runtime = NoRuntime
  /\ outputDir = <<>>
  /\ inst = NoInstall
  /\ webpackBinPath = <<>>
  /\ pluginsPath = <<>>
  /\ pluginsPaths = NoPaths
  /\ config = NoConfig
  /\ written = NoConfig
  /\ child = NoChild
  /\ log = <<>>
  /\ calls = <<>>
  /\ descriptor = NoDescriptor
  /\ error = "none"

NoEscape ==
  /\ p = <<>>
  /\ escaped = Undefined
  /\ parsed = Undefined

\* a process of one of the given Node.js versions, nothing built yet
Start(hosts) ==
  /\ IdleBuild
  /\ hostNode \in hosts
  /\ exitCode = "none"
  /\ nBuilds = 0
  /\ dirs = {}
  /\ files = {}
  /\ firstSynth = NoSynth
  /\ NoEscape

Init == Start(HostVersions)

\* one construction, with every input
Next ==
  \/ New(1, Entries, Handlers, Runtimes, ModuleLists, ConnectionReuse, Disks)
  \/ Step

Spec == Init /\ [][Next]_vars

\* the inputs of the runs of several constructions
SeqEntries == {<<"events", "/", "foo", ".", "js">>, <<"/", "srv", "/", "b", ".", "ts">>}
SeqRuntimes == {NoRuntime}
SeqHandlers == {Undefined}
SeqReuse == {"undefined"}
SeqModules == {NoModules, [given |-> TRUE, list |-> << <<"pg-native">>, <<"tedious">> >>]}
SeqHosts == {<<"1", "2", ".", "0", ".", "0">>}
SeqDisks == {{<<"/", "srv", "/", "b", ".", "ts">>,
              <<"/", "w", "/", "events", "/", "foo", ".", "js">>}}

\* up to MaxBuilds constructions in one process
NextSeq ==
  \/ New(MaxBuilds, SeqEntries, SeqHandlers, SeqRuntimes, SeqModules, SeqReuse,
         SeqDisks)
  \/ Step

InitSeq == Start(SeqHosts)

SpecSeq == InitSeq /\ [][NextSeq]_vars

\* One construction with every input that decides the path the
\* constructor takes.  The constructor's code is synchronous: a statement
\* that is reached is executed, and spawnSync returns.
NextLive ==
  \/ New(1, Entries, SeqHandlers, Runtimes, ModuleLists, SeqReuse, Disks)
  \/ Step

SpecLive == Init /\ [][NextLive]_vars /\ WF_vars(Step)

(***************************************************************************)
(* escapePathForNodeJs on its own: every path of up to MaxLen tokens over  *)
(* a backslash, a separator, a drive colon and a name.                     *)
(***************************************************************************)
PathTokens == {BS, "/", ":", "dir"}
RECURSIVE PathsOfLen(_)
PathsOfLen(n) ==
  IF n = 0 THEN {<<>>}
  ELSE {Append(q, t) : q \in PathsOfLen(n - 1), t \in PathTokens}
Paths == UNION {PathsOfLen(n) : n \in 0..MaxLen}

InitEscape ==
  /\ IdleBuild
  /\ hostNode \in SeqHosts
  /\ exitCode = "none"
  /\ nBuilds = 0
  /\ dirs = {}
  /\ files = {}
  /\ firstSynth = NoSynth
  /\ p \in Paths
  /\ escaped = Undefined
  /\ parsed = Undefined

\* the template interpolates escapePathForNodeJs(p)
Escape ==
  /\ escaped = Undefined
  /\ escaped' = escapePathForNodeJs(p)
  /\ UNCHANGED <<p, parsed, buildVars, procVars>>

\* Node reads the written text as the body of a string literal
ReadBack ==
  /\ escaped # Undefined
  /\ parsed = Undefined
  /\ parsed' = ReadStringLiteral(escaped)
  /\ UNCHANGED <<p, escaped, buildVars, procVars>>

NextEscape == Escape \/ ReadBack

SpecEscape == InitEscape /\ [][NextEscape]_vars

(***************************************************************************)
(* The claims.                                                             *)
(***************************************************************************)
BeforeExtensionCheck == pc \in {"idle", "checkRuntime", "checkExtension"}
BeforeEntryResolved == BeforeExtensionCheck \/ pc = "resolveEntry"
ResolvedEntry == pathResolve(Cwd, props.entry)
RuntimeAccepted == props.runtime = NoRuntime \/ props.runtime.family = "NODEJS"

\* the entry a configuration names: the current template writes the
\* escaped path, which reads back as the path; the others write it as it is
EntryOf(cfg) ==
  IF cfg.kind = WebpackVariant THEN ReadStringLiteral(cfg.entry) ELSE cfg.entry

EntryOutcome ==
  /\ (~BeforeExtensionCheck /\ ~HasSourceExtension(props.entry))
       => (pc = "thrown" /\ error = "InvalidEntryExtension")
  /\ (~BeforeEntryResolved /\ HasSourceExtension(props.entry)
        /\ ResolvedEntry \notin disk)
       => (pc = "thrown" /\ error = "EntryNotFound")
  /\ (~BeforeEntryResolved /\ HasSourceExtension(props.entry)
        /\ ResolvedEntry \in disk)
       => /\ error \notin {"InvalidEntryExtension", "EntryNotFound"}
          /\ entryFullPath = ResolvedEntry
          /\ (config # NoConfig => EntryOf(config) = ResolvedEntry)

InLog(entry) == \E i \in 1..Len(log) : log[i] = entry

\* the build has passed the point where the exit status is looked at
StatusInterpreted == child # NoChild /\ pc \notin {"interpret", "report"}

FailureOutcome ==
  /\ pc = "exited"
  /\ exitCode = "1"
  /\ InLog([tag |-> "configuration", text |-> written])
  /\ InLog([tag |-> "output", val |-> child.output])

\* C2: whenever the bundler exits with a non-zero status the process is
\* ended with a non-zero exit status, after the written configuration
\* text and the captured output were put out.
C2_FailurePath ==
  (StatusInterpreted /\ child.status \in {"1", "2"}) => FailureOutcome

\* C2 in the two webpack constructors alone, where it holds.
C2_WebpackFailurePath ==
  (variant \in WebpackVariants /\ StatusInterpreted /\ child.status \in {"1", "2"})
    => FailureOutcome

\* C3: the descriptor is constructed only in a build whose bundler
\* returned exit status 0, in every constructor.
C3_NoPartialSuccess == descriptor.built => child.status = "0"

\* C3 in the two webpack constructors alone, where it holds.
C3_WebpackNoPartialSuccess ==
  (variant \in WebpackVariants /\ descriptor.built) => child.status = "0"

GivenHandlerName == IF props.handler = Undefined THEN <<"handler">> ELSE props.handler

\* C4: a successful build of a webpack constructor hands "main." and the
\* handler name ("handler" when none is given) to the descriptor, whatever
\* the entry.
C4_MainHandler ==
  (variant \in WebpackVariants /\ descriptor.built)
    => descriptor.handler = <<"main", ".">> \o GivenHandlerName

\* C4: entry events/foo.js and no handler name gave main.handler.
C4_Witness ==
  /\ variant = WebpackVariant
  /\ descriptor.built
  /\ child.status = "0"
  /\ props.entry = <<"events", "/", "foo", ".", "js">>
  /\ props.handler = Undefined
  /\ descriptor.handler = <<"main", ".", "handler">>

\* the entry as given, without its ".js" or ".ts"
WithoutExtension(entry) == SubSeq(entry, 1, Len(entry) - 2)

\* C5: the rollup constructor hands the entry's own path without its
\* extension, joined with the handler name, to the descriptor
\* (events/foo.js gives events/foo.handler).
C5_DirectHandler ==
  (variant = RollupVariant /\ descriptor.built)
    => descriptor.handler = WithoutExtension(props.entry) \o <<".">> \o GivenHandlerName

HostAtLeast12 == nodeMajorVersion(hostNode) >= 12

\* C6: without a runtime the descriptor gets NODEJS_12_X and the
\* configuration the target "12" when the host's major version is >= 12,
\* NODEJS_10_X and "10" otherwise; a given runtime is used as it is.
C6_DefaultRuntime ==
  /\ (descriptor.built /\ props.runtime = NoRuntime)
       => descriptor.runtime = IF HostAtLeast12 THEN NODEJS_12_X ELSE NODEJS_10_X
  /\ (config # NoConfig /\ config.kind \in WebpackVariants /\ props.runtime = NoRuntime)
       => config.targetNode = IF HostAtLeast12 THEN <<"1", "2">> ELSE <<"1", "0">>
  /\ (descriptor.built /\ props.runtime # NoRuntime)
       => descriptor.runtime = props.runtime
  /\ (config # NoConfig /\ config.kind \in WebpackVariants /\ props.runtime = NODEJS_10_X)
       => config.targetNode = <<"1", "0">>
  /\ (config # NoConfig /\ config.kind \in WebpackVariants /\ props.runtime = NODEJS_12_X)
       => config.targetNode = <<"1", "2">>

\* C6: on Node.js 12.0.0, without a runtime, the build got NODEJS_12_X
\* and target "12".
C6_Witness ==
  /\ descriptor.built
  /\ props.runtime = NoRuntime
  /\ hostNode = <<"1", "2", ".", "0", ".", "0">>
  /\ descriptor.runtime = NODEJS_12_X
  /\ config.kind \in WebpackVariants
  /\ config.targetNode = <<"1", "2">>

NothingCreated ==
  /\ outputDir = <<>>
  /\ written = NoConfig
  /\ \A d \in dirs : d.by # nBuilds
  /\ \A f \in files : f.by # nBuilds

\* C7: a build that ended with an input-validation error or with
\* findModulePath's error has spawned no bundler; one that ended with an
\* input-validation error has created no temporary directory and written
\* no configuration file either.
C7_ErrorsBeforeSpawn ==
  /\ error \in {"OnlyNodejsRuntimes", "InvalidEntryExtension", "EntryNotFound",
                "CantFindModule"}
       => (pc = "thrown" /\ child = NoChild)
  /\ error \in {"OnlyNodejsRuntimes", "InvalidEntryExtension", "EntryNotFound"}
       => NothingCreated

\* C7: findModulePath threw after the temporary directory was created and
\* before anything was spawned.
C7_Witness ==
  /\ pc = "thrown"
  /\ error = "CantFindModule"
  /\ outputDir # <<>>
  /\ child = NoChild

RECURSIVE Count(_, _)
Count(tok, s) ==
  IF s = <<>> THEN 0
  ELSE (IF Head(s) = tok THEN 1 ELSE 0) + Count(tok, Tail(s))

\* every maximal run of backslashes has even length
RECURSIVE BackslashesPaired(_)
BackslashesPaired(s) ==
  IF s = <<>> THEN TRUE
  ELSE IF Head(s) # BS THEN BackslashesPaired(Tail(s))
  ELSE Len(s) >= 2 /\ s[2] = BS /\ BackslashesPaired(SubSeq(s, 3, Len(s)))

\* C8: escapePathForNodeJs(p) holds every backslash of p doubled and no
\* unpaired one, and read as the body of a double-quoted string literal
\* it gives p back.
C8_EscapeRoundTrip ==
  /\ escaped # Undefined
       => /\ Count(BS, escaped) = 2 * Count(BS, p)
          /\ Len(escaped) = Len(p) + Count(BS, p)
          /\ BackslashesPaired(escaped)
  /\ parsed # Undefined => parsed = p

\* C8: a path with two separate backslashes came back unchanged.
C8_Witness ==
  /\ p = <<"dir", BS, "dir", BS>>
  /\ escaped = <<"dir", BS, BS, "dir", BS, BS>>
  /\ parsed = p

BuildStarted ==
  pc \in {"locate", "synth", "write", "spawn", "report", "interpret", "unlink",
          "super", "environment", "done", "exited"}

\* C9: every build past validation has a temporary directory of its own:
\* no directory belongs to two builds, and every file (configuration or
\* bundle output) lies in a directory of the build that wrote it.
C9_DirectoryPerBuild ==
  /\ \A a \in dirs, b \in dirs : a.dir = b.dir => a.by = b.by
  /\ \A f \in files : \E d \in dirs : d.dir = f.dir /\ d.by = f.by
  /\ BuildStarted => [dir |-> outputDir, by |-> nBuilds] \in dirs

\* C9: two builds, each with bundle output in a directory of its own.
C9_Witness ==
  /\ nBuilds = 2
  /\ \E f \in files, g \in files :
       /\ f.by = 1 /\ g.by = 2
       /\ f.name = <<"bundle">> /\ g.name = <<"bundle">>
       /\ f.dir # g.dir

\* the replacement-module path the running build located
LocatedNoop ==
  IF variant = WebpackVariant THEN pluginsPaths[<<"noop2">>]
  ELSE pathJoin(pluginsPath, <<"noop2">>)

SameSynthInputs ==
  /\ config # NoConfig
  /\ firstSynth # NoSynth
  /\ config.kind = firstSynth.kind
  /\ props.modulesToIgnore = firstSynth.modulesToIgnore
  /\ LocatedNoop = firstSynth.noop

\* C10: two syntheses of one constructor with the same modulesToIgnore
\* list and the same located no-op module give the same rewrite section,
\* whatever the output directory, the entry and the order of the builds.
C10_RewriteDeterminism == SameSynthInputs => config.plugins = firstSynth.plugins

\* C10: a second build with another entry and another output directory
\* wrote the rewrite section of the first.
C10_Witness ==
  /\ SameSynthInputs
  /\ nBuilds = 2
  /\ firstSynth.build = 1
  /\ props.modulesToIgnore.given
  /\ props.modulesToIgnore.list # <<>>
  /\ props.entry = <<"/", "srv", "/", "b", ".", "ts">>
  /\ \E d \in dirs : d.by = 1 /\ d.dir # outputDir
  /\ config.plugins = firstSynth.plugins

\* path is the directory dir or lies inside it
Under(path, dir) ==
  \/ path = dir
  \/ /\ Len(path) > Len(dir) + 1
     /\ SubSeq(path, 1, Len(dir)) = dir
     /\ path[Len(dir) + 1] = "/"

\* where the build writes, and where the written configuration tells the
\* bundler to write: the configuration file, the output path, the caches
WriteLocations ==
  {ConfigPath(variant, outputDir), BundlerOutputDir(written)}
    \cup (IF written.kind = WebpackVariant
          THEN {ReadStringLiteral(written.babelCacheDirectory),
                ReadStringLiteral(written.cacheDirectory)}
          ELSE {})

\* C11: every location the build writes to or tells the bundler to write
\* to (configuration file, output path, babel cache, webpack cache) lies
\* inside the build's temporary directory and not under process.cwd().
C11_NoProjectWrites ==
  written # NoConfig
    => \A loc \in WriteLocations : Under(loc, outputDir) /\ ~Under(loc, Cwd)

\* C12: every successfully built construct, of every constructor and with
\* every combination of properties, ends with NODE_OPTIONS set to
\* --enable-source-maps in its environment.
C12_SourceMapsAlways ==
  pc = "done" => <<"NODE_OPTIONS", "--enable-source-maps">> \in descriptor.environment

\* C12 in the two webpack constructors alone, where it holds.
C12_WebpackSourceMaps ==
  (variant \in WebpackVariants /\ pc = "done")
    => <<"NODE_OPTIONS", "--enable-source-maps">> \in descriptor.environment

\* the configuration file of the running build is on the disk
ConfigFileKept ==
  \E f \in files : f.dir = outputDir /\ f.name = ConfigName(variant)

\* the spawnSync calls of the running build that were given its configuration file
ConfigConsumers ==
  {i \in 1..Len(calls) :
     calls[i].op = "spawnSync" /\ calls[i].path = ConfigPath(variant, outputDir)}

ConfigLifecycle ==
  /\ child # NoChild => Cardinality(ConfigConsumers) = 1
  /\ descriptor.built
       => /\ ~ConfigFileKept
          /\ \A f \in files :
               f.dir = descriptor.code => (f.by = nBuilds /\ f.name = <<"bundle">>)
  /\ pc = "exited" => ConfigFileKept

\* C13: the configuration file is consumed by exactly one subprocess
\* invocation; when the descriptor is constructed the file has been
\* deleted and the directory handed over holds only this build's bundler
\* output; after a failed build the file is still there.
C13_ConfigLifecycle == ConfigLifecycle

\* C13 in the older webpack constructor alone, where it holds.
C13_OldWebpackLifecycle == variant = OldWebpackVariant => ConfigLifecycle

\* require.resolve finds the module from __dirname / find-up finds it
StrategyA(m) == inst.mods[m].req
StrategyB(m) == inst.mods[m].up

\* what findModulePath returned for m is what the strategy order gives
LocatedInOrder(m, path) ==
  /\ path \notin {CantFind, Undefined, <<>>}
  /\ StrategyA(m) => path = ResolvedMain(inst, m)
  /\ ~StrategyA(m) => (StrategyB(m) /\ path = pathJoin(pluginsPath, m))

\* the lookups of findModulePath have begun: the webpack-cli executable resolved
LookupsBegun == variant = WebpackVariant /\ webpackBinPath # <<>>

\* C14: findModulePath returns the require.resolve result whenever that
\* strategy succeeds, the find-up result only when it fails and find-up
\* finds a directory, never an undefined path; it throws exactly when
\* both strategies fail.
C14_LocatorOrder ==
  /\ (variant = WebpackVariant /\ pluginsPaths # NoPaths)
       => \A m \in LocatedNames : LocatedInOrder(m, pluginsPaths[m])
  /\ (config # NoConfig /\ config.kind = WebpackVariant)
       => LocatedInOrder(<<"ts-loader">>, ReadStringLiteral(config.tsLoader))
  /\ error = "CantFindModule"
       => (LookupsBegun /\ \E m \in ModuleNames : ~StrategyA(m) /\ ~StrategyB(m))
  /\ (LookupsBegun /\ \E m \in LocatedNames : ~StrategyA(m) /\ ~StrategyB(m))
       => (pc = "thrown" /\ error = "CantFindModule")
  /\ (LookupsBegun /\ pc \notin {"synth", "thrown"})
       => (StrategyA(<<"ts-loader">>) \/ StrategyB(<<"ts-loader">>))

\* C14: in a linked install the build ran to its end with the module paths
\* found by the upward search.
C14_Witness ==
  /\ variant = WebpackVariant
  /\ pc = "done"
  /\ ~StrategyA(<<"noop2">>)
  /\ pluginsPaths[<<"noop2">>] = pathJoin(pluginsPath, <<"noop2">>)
  /\ ReadStringLiteral(config.tsLoader) = pathJoin(pluginsPath, <<"ts-loader">>)

\* C15: with a modulesToIgnore list the synthesized configuration has the
\* plugins section with one NormalModuleReplacementPlugin rule, whose
\* pattern is the list's names in order joined with "|" and whose
\* replacement is the located noop2 path; without a list it has no
\* plugins section and no rule.
C15_ExclusionRewrite ==
  (config # NoConfig /\ config.kind \in WebpackVariants)
    => /\ config.plugins.present <=> props.modulesToIgnore.given
       /\ config.plugins.present
            => /\ config.plugins.pattern = JoinWith(props.modulesToIgnore.list, <<"|">>)
               /\ ReadStringLiteral(config.plugins.replacement) = LocatedNoop

\* C15: the list ["pg-native", "tedious"] gave the pattern
\* pg-native|tedious and the replacement is the noop2 module found.
C15_Witness ==
  /\ variant = WebpackVariant
  /\ pc = "done"
  /\ props.modulesToIgnore.list = << <<"pg-native">>, <<"tedious">> >>
  /\ config.plugins.present
  /\ config.plugins.pattern = <<"pg-native", "|", "tedious">>
  /\ ReadStringLiteral(config.plugins.replacement) = pluginsPaths[<<"noop2">>]

\* text is the escaped form of path, put in a quoted string literal that
\* reads back as path
EscapedLiteral(text, path) ==
  text = escapePathForNodeJs(path) /\ ReadStringLiteral(text) = path

EscapedPaths ==
  /\ written.outputQuoted
  /\ EscapedLiteral(written.entry, entryFullPath)
  /\ EscapedLiteral(written.outputPath, outputDir)
  /\ written.kind = WebpackVariant
       => /\ EscapedLiteral(written.context, Cwd)
          /\ EscapedLiteral(written.babelCacheDirectory, CacheDir(<<"babel">>))
          /\ EscapedLiteral(written.cacheDirectory, CacheDir(<<"webpack">>))
          /\ EscapedLiteral(written.webpack, pluginsPaths[<<"webpack">>])
          /\ EscapedLiteral(written.babelLoader, pluginsPaths[<<"babel-loader">>])
          /\ EscapedLiteral(written.terser, pluginsPaths[<<"terser-webpack-plugin">>])

\* C16: in every constructor every absolute path of the written
\* configuration (entry, output directory, project root, cache
\* directories, helper module paths) is there in its escaped form inside
\* a quoted string literal.
C16_EscapingCoverage == written # NoConfig => EscapedPaths

\* C16 in the current webpack constructor alone, where it holds.
C16_WebpackEscaping == (written # NoConfig /\ variant = WebpackVariant) => EscapedPaths

\* C17: in every build the bundler is launched with its working
\* directory set to the build's temporary output directory, not
\* process.cwd() and not an inherited one.
C17_SpawnInOutputDir ==
  child # NoChild => (child.cwd = outputDir /\ child.cwd # Cwd)

\* C17 in the current webpack constructor alone, where it holds.
C17_WebpackSpawnInOutputDir ==
  (variant = WebpackVariant /\ child # NoChild)
    => (child.cwd = outputDir /\ child.cwd # Cwd)

\* the positions of the calls of one kind the running build made
CallsOf(op) == {i \in 1..Len(calls) : calls[i].op = op}

\* C18: a build writes one configuration, once; it spawns the bundler at
\* most once, after that write, with the written file's path as the
\* configuration argument, and never again once the bundler has returned,
\* whatever its status.
C18_OneConfigOneInvocation ==
  /\ Cardinality(CallsOf("writeFileSync")) <= 1
  /\ Cardinality(CallsOf("spawnSync")) <= 1
  /\ written # NoConfig
       => (Cardinality(CallsOf("writeFileSync")) = 1 /\ written = config)
  /\ \A s \in CallsOf("spawnSync") :
       /\ \E w \in CallsOf("writeFileSync") : w < s /\ calls[w].path = calls[s].path
       /\ child.configArg = calls[s].path
  /\ child # NoChild => Cardinality(CallsOf("spawnSync")) = 1

\* C18: a bundler that exited with status 1 was spawned once, after the
\* one write, and the build ended without another spawn.
C18_Witness ==
  /\ pc = "exited"
  /\ child.status = "1"
  /\ Cardinality(CallsOf("writeFileSync")) = 1
  /\ Cardinality(CallsOf("spawnSync")) = 1
  /\ child.configArg = ConfigPath(variant, outputDir)

\* the runtime name is "nodejs" followed by a number
HasNumericVersion(name) ==
  Len(name) >= 2 /\ name[1] = "nodejs" /\ IsDigit(name[2])

\* the digits that follow "nodejs" in the name
RECURSIVE LeadingDigits(_)
LeadingDigits(s) ==
  IF s = <<>> \/ ~IsDigit(Head(s)) THEN <<>>
  ELSE <<Head(s)>> \o LeadingDigits(Tail(s))

\* the template literal has been evaluated, or its evaluation threw
Synthesized == variant \in WebpackVariants /\ (config # NoConfig \/ error = "TypeError")

\* C19: the target written into the configuration is the numeric major
\* segment of the runtime name; for a runtime name without a number after
\* "nodejs" the synthesis fails before any configuration is written, and
\* no configuration has an empty or undefined target.
C19_RuntimeVersionParsing ==
  /\ (config # NoConfig /\ config.kind \in WebpackVariants)
       => /\ config.targetNode \notin {<<>>, Undefined, TypeError}
          /\ config.targetNode = LeadingDigits(Tail(runtime.name))
  /\ (Synthesized /\ ~HasNumericVersion(runtime.name))
       => (pc = "thrown" /\ config = NoConfig /\ written = NoConfig)

\* C19 for every runtime but the one named exactly "nodejs", where it holds.
C19_VersionedOrForeignRuntime ==
  runtime # NODEJS => C19_RuntimeVersionParsing

\* the outcomes of a build
ThrownOutcome == error # "none"
ExitOutcome == exitCode # "none"
BuiltOutcome == descriptor.built
Terminal == pc \in {"thrown", "exited", "done"}

OneOutcome ==
  /\ ~(ThrownOutcome /\ ExitOutcome)
  /\ ~(ThrownOutcome /\ BuiltOutcome)
  /\ ~(ExitOutcome /\ BuiltOutcome)
  /\ pc = "thrown" => ThrownOutcome
  /\ pc = "exited" => ExitOutcome
  /\ pc = "done" => BuiltOutcome

\* the constructor is past the spawnSync call
PastSpawn ==
  pc \in {"report", "interpret", "unlink", "super", "environment", "done", "exited"}

\* C20: every started build ends in exactly one outcome (a thrown error,
\* process exit after a bundler failure, or a constructed descriptor),
\* and the constructor is never past the spawn step without the result of
\* the subprocess.
C20_OutcomeReached ==
  /\ [](OneOutcome /\ (PastSpawn => child # NoChild))
  /\ (pc = "checkRuntime") ~> Terminal

\* C20: a build whose bundler was killed by a signal ended with process
\* exit, holding the result spawnSync returned.
C20_Witness ==
  /\ pc = "exited"
  /\ child.error = "SIGKILL"
  /\ ExitOutcome /\ ~ThrownOutcome /\ ~BuiltOutcome

\* the configuration the same build synthesizes when props.modulesToIgnore
\* is not supplied
ConfigWithoutModulesToIgnore ==
  IF variant = WebpackVariant
  THEN webpackConfiguration(entryFullPath, outputDir, runtime, pluginsPaths,
         findModulePath(<<"ts-loader">>, pluginsPath, inst), NoModules, inst)
  ELSE oldWebpackConfiguration(entryFullPath, outputDir, runtime, pluginsPath,
         NoModules)

\* C21: when modulesToIgnore is supplied as an empty list, the synthesized
\* configuration is the one synthesized without modulesToIgnore: it has no
\* plugins section, no rewrite rule, and no rule with an empty pattern.
C21_EmptyListAsAbsent ==
  (config # NoConfig /\ config.kind \in WebpackVariants
     /\ props.modulesToIgnore.list = <<>>)
    => /\ ~config.plugins.present
       /\ config = ConfigWithoutModulesToIgnore

\* C21 for the absent list alone, where it holds: the empty list is the
\* only input on which the two configurations differ.
C21_AbsentListNoSection ==
  (config # NoConfig /\ config.kind \in WebpackVariants
     /\ ~props.modulesToIgnore.given)
    => /\ ~config.plugins.present
       /\ config = ConfigWithoutModulesToIgnore

\* the rule the empty list gives: present, with the empty pattern
C21_EmptyPatternRule ==
  (config # NoConfig /\ config.kind \in WebpackVariants
     /\ props.modulesToIgnore = [given |-> TRUE, list |-> <<>>])
    => /\ config.plugins.present
       /\ config.plugins.pattern = <<>>

====
